---- MODULE Spec2Model ----
(***************************************************************************)
(* Model of foundation_settlement.py: the footing analysis functions       *)
(* (calculate_settlement, check_tipping, calculate_rotation_angle) and the *)
(* Streamlit script that reads the geometry and runs them over the load    *)
(* cases.                                                                  *)
(*                                                                         *)
(* Numbers.  The script computes with Python floats.  The model computes   *)
(* with exact rationals <<n, d>> (d > 0, lowest terms), i.e. the real      *)
(* arithmetic the floats approximate; rounding error is not modelled.      *)
(* Division is Python's: a zero divisor raises ZeroDivisionError.          *)
(*                                                                         *)
(* Two specifications:                                                     *)
(*   Spec    the script: geometry widgets, the "Run Calculations" button   *)
(*           and the loop over loads, one iteration per step;              *)
(*   SpecFn  direct calls of the three functions on enumerated arguments.  *)
(***************************************************************************)
EXTENDS Integers, Sequences, FiniteSets, TLC

VARIABLES
    L, B, H,                \* module globals of lines 23-25 (H is rebound by line 99)
    E,                      \* line 9
    load_case_factors,      \* lines 12-17
    loads,                  \* lines 28-33, an ordered mapping: sequence of [case, values]
    number_inputs,          \* the values the three st.number_input widgets hold
    case, M, V,             \* loop variables of lines 98-99 (module globals)
    S, sigma_max, sigma_min, e, tipping_status, alpha,     \* lines 100-102
    settlement_values, eccentricity_values, rotation_values, results,  \* lines 93-96
    it,                     \* position of the iterator of line 98
    pc,                     \* "idle", "loop", "done", "raised"
    exc,                    \* the exception that ended the script run, or "None"
    call                    \* SpecFn: the last direct call [fn, args, ret]

vars == <<L, B, H, E, load_case_factors, loads, number_inputs, case, M, V,
          S, sigma_max, sigma_min, e, tipping_status, alpha,
          settlement_values, eccentricity_values, rotation_values, results,
          it, pc, exc, call>>

-----------------------------------------------------------------------------
(* Bounds of the enumerated inputs *)
MaxM == 3          \* |moment| of an enumerated call
MaxV == 2          \* |vertical force| of an enumerated call
MaxGeom == 3       \* largest footing dimension entered in a widget or passed as B
MaxCases == 2      \* number of load cases of an enumerated loads mapping
MaxRunM == 2       \* moment of a load case of an enumerated loads mapping

-----------------------------------------------------------------------------
(* Exact rational arithmetic *)
RECURSIVE Gcd(_, _)
Gcd(a, b) == IF b = 0 THEN a ELSE Gcd(b, a % b)

Abs(x) == IF x < 0 THEN -x ELSE x

Norm(n, d) ==
    LET g == Gcd(Abs(n), Abs(d))
        s == IF d < 0 THEN -1 ELSE 1
    IN  <<(s * n) \div g, (s * d) \div g>>

R(n) == <<n, 1>>
Zero == R(0)
IsZero(a) == a[1] = 0

RAdd(a, b) == Norm(a[1] * b[2] + b[1] * a[2], a[2] * b[2])
RSub(a, b) == Norm(a[1] * b[2] - b[1] * a[2], a[2] * b[2])
RMul(a, b) ==
    LET g1 == Gcd(Abs(a[1]), b[2])
        g2 == Gcd(Abs(b[1]), a[2])
    IN  Norm((a[1] \div g1) * (b[1] \div g2), (a[2] \div g2) * (b[2] \div g1))
\* a / b for b # 0
RDiv(a, b) == RMul(a, Norm(b[2], b[1]))
RLe(a, b) == a[1] * b[2] <= b[1] * a[2]
RLt(a, b) == a[1] * b[2] < b[1] * a[2]

-----------------------------------------------------------------------------
(* Python values *)
Unbound == <<>>                      \* a name not yet assigned in this script run
UnboundStr == "unbound"              \* the same, for a name that holds a string
ZeroDivisionError == "ZeroDivisionError"
IndexError == "IndexError"
Raise(x) == [exc |-> x]
Raised(r) == r.exc # "None"

\* dict.get(key, default)
dict_get(d, key, default) == IF key \in DOMAIN d THEN d[key] ELSE default

\* np.degrees(np.arctan(t)).  arctan is a strictly increasing bijection from
\* the reals onto (-90, 90) degrees; the angle is represented by the tangent
\* it is the arctangent of.
degrees_arctan(t) == <<"degrees(arctan)", t>>

\* format(x, ".kf"): x rounded to k decimals (ties to even), as a count of
\* 10^-k, by long division
RECURSIVE Digits(_, _, _, _)
Digits(q, r, d, k) ==
    IF k = 0 THEN <<q, r>>
    ELSE Digits(q * 10 + ((r * 10) \div d), (r * 10) % d, d, k - 1)
fmt(x, k) ==
    LET qr == Digits(x[1] \div x[2], x[1] % x[2], x[2], k)
        q == qr[1]
        r == qr[2]
    IN  IF 2 * r > x[2] \/ (2 * r = x[2] /\ q % 2 = 1) THEN q + 1 ELSE q

-----------------------------------------------------------------------------
(* Module constants, lines 9-33 *)
E_default == R(20000)

CaseNames == {"Crane Operation", "Storm Rear", "Storm Front", "During Assembly"}

load_case_factors_default ==
    [c \in CaseNames |->
        IF c = "Crane Operation" THEN Norm(125, 100)
        ELSE IF c = "Storm Rear" THEN Norm(105, 100)
        ELSE IF c = "Storm Front" THEN Norm(102, 100)
        ELSE Norm(130, 100)]

LoadCase(c, m, h, v) == [case |-> c, values |-> <<m, h, v>>]

loads_default ==
    << LoadCase("Crane Operation", Norm(56810, 10), R(65),  Norm(29752, 10)),
       LoadCase("Storm Rear",      Norm(63800, 10), R(150), Norm(29252, 10)),
       LoadCase("Storm Front",     Norm(69800, 10), R(100), Norm(29252, 10)),
       LoadCase("During Assembly", Norm(39800, 10), R(50),  Norm(27052, 10)) >>

\* value= and min_value= of the three number inputs, lines 23-25
number_inputs_default == [L |-> Norm(77, 10), B |-> Norm(77, 10), H |-> Norm(14, 10)]
min_value == [L |-> R(1), B |-> R(1), H |-> Norm(1, 10)]

-----------------------------------------------------------------------------
(* Variants of calculate_settlement with one slip each: the branch taken up  *)
(* to B/3, the branch taken up to B/2, the factor left out of S.            *)
SettlementVariant(m, v, b, c, k, withFactor) ==
    IF IsZero(v) THEN Raise(ZeroDivisionError)
    ELSE
    LET e_ == RDiv(m, v)
        f_correction == IF withFactor THEN dict_get(load_case_factors, c, R(1)) ELSE R(1)
        BL == RMul(b, L)
        linear == RLe(e_, RDiv(b, R(k)))
    IN  IF IsZero(BL) THEN Raise(ZeroDivisionError)
        ELSE
        LET smax == IF linear
                    THEN RMul(RDiv(v, BL), RAdd(R(1), RDiv(RMul(R(6), e_), b)))
                    ELSE RDiv(RMul(R(2), v), BL)
            smin == IF linear
                    THEN RMul(RDiv(v, BL), RSub(R(1), RDiv(RMul(R(6), e_), b)))
                    ELSE Zero
        IN  IF IsZero(E) THEN Raise(ZeroDivisionError)
            ELSE [exc |-> "None",
                  S |-> RDiv(RMul(RMul(smax, b), f_correction), E),
                  sigma_max |-> smax, sigma_min |-> smin, e |-> e_]
calculate_settlement_third(m, h, v, b, c) == SettlementVariant(m, v, b, c, 3, TRUE)
calculate_settlement_half(m, h, v, b, c) == SettlementVariant(m, v, b, c, 2, TRUE)
calculate_settlement_nofactor(m, h, v, b, c) == SettlementVariant(m, v, b, c, 6, FALSE)

(* calculate_settlement, lines 35-51.  Reads the globals L, E and           *)
(* load_case_factors.  h is the horizontal force; it is not used.           *)
calculate_settlement(m, h, v, b, c) ==
    IF IsZero(v) THEN Raise(ZeroDivisionError)                        \* line 39
    ELSE
    LET e_ == RDiv(m, v)
        f_correction == dict_get(load_case_factors, c, R(1))          \* line 40
        BL == RMul(b, L)
        linear == RLe(e_, RDiv(b, R(6)))                              \* line 42
    IN  IF IsZero(BL) THEN Raise(ZeroDivisionError)                   \* lines 43, 46
        ELSE
        LET smax == IF linear
                    THEN RMul(RDiv(v, BL), RAdd(R(1), RDiv(RMul(R(6), e_), b)))
                    ELSE RDiv(RMul(R(2), v), BL)
            smin == IF linear
                    THEN RMul(RDiv(v, BL), RSub(R(1), RDiv(RMul(R(6), e_), b)))
                    ELSE Zero
        IN  IF IsZero(E) THEN Raise(ZeroDivisionError)                \* line 50
            ELSE [exc |-> "None",
                  S |-> RDiv(RMul(RMul(smax, b), f_correction), E),
                  sigma_max |-> smax, sigma_min |-> smin, e |-> e_]

(* Variant of check_tipping with a non-strict comparison *)
check_tipping_ge(e_, b) ==
    IF RLe(RDiv(b, R(3)), e_) THEN "Tipping Risk: YES" ELSE "Tipping Risk: NO"

(* check_tipping, lines 53-57 *)
check_tipping(e_, b) ==
    IF RLt(RDiv(b, R(3)), e_) THEN "Tipping Risk: YES" ELSE "Tipping Risk: NO"

(* Variants of calculate_rotation_angle: a zero divisor gives an infinite    *)
(* tangent (90 degrees) instead of an exception; the factor is left out.    *)
calculate_rotation_angle_inf(m, b, c) ==
    LET f_correction == dict_get(load_case_factors, c, R(1))
        den == RMul(RMul(b, E), f_correction)
    IN  IF IsZero(den) THEN [exc |-> "None", alpha |-> degrees_arctan(<<1, 0>>)]
        ELSE [exc |-> "None", alpha |-> degrees_arctan(RDiv(m, den))]
calculate_rotation_angle_nofactor(m, b, c) ==
    LET den == RMul(b, E)
    IN  IF IsZero(den) THEN Raise(ZeroDivisionError)
        ELSE [exc |-> "None", alpha |-> degrees_arctan(RDiv(m, den))]

(* calculate_rotation_angle, lines 59-66 *)
calculate_rotation_angle(m, b, c) ==
    LET f_correction == dict_get(load_case_factors, c, R(1))
        den == RMul(RMul(b, E), f_correction)
    IN  IF IsZero(den) THEN Raise(ZeroDivisionError)
        ELSE [exc |-> "None", alpha |-> degrees_arctan(RDiv(m, den))]

(* plot_footing, lines 68-90: the four corners index the three lists 0..3 *)
plot_footing(settlements, eccentricities, rotations) ==
    IF \E i \in 1..4 : i > Len(settlements) \/ i > Len(eccentricities) \/ i > Len(rotations)
    THEN Raise(IndexError)
    ELSE [exc |-> "None"]

(* Variant of number_input without the min_value check *)
number_input_unchecked(lo, cur, x) == x

(* st.number_input(..., min_value=lo): the widget holds cur and the user    *)
(* enters x; an entry below min_value is refused and the widget keeps cur.  *)
number_input(lo, cur, x) == IF RLt(x, lo) THEN cur ELSE x

(* One line of the results text, line 103 *)
result_line(c, s_, smax, tip, a) ==
    [case |-> c, Settlement |-> fmt(s_, 4), MaxPressure |-> fmt(smax, 2),
     tipping_status |-> tip, RotationAngle |-> <<".2f", a>>]

-----------------------------------------------------------------------------
(* Enumerated inputs *)
Fields == {"L", "B", "H"}
\* the values entered: any width up to MaxGeom, a length or depth of 0 or 1
Entries(field) == IF field = "B" THEN {R(k) : k \in 0..MaxGeom} ELSE {R(0), R(1)}
HorizontalForces == {R(0), R(65)}
AllCaseNames == CaseNames \cup {"Unlisted"}
RunCaseNames == {"Crane Operation", "Storm Front", "Unlisted"}

RunCases == {LoadCase(c, R(m), R(65), R(v)) :
                c \in RunCaseNames, m \in 0..MaxRunM, v \in {0, 1}}

\* ordered mappings: the keys of a dict are distinct
IsMapping(ls) == \A i, j \in 1..Len(ls) : i # j => ls[i].case # ls[j].case
LoadsInputs ==
    {loads_default} \cup
    {ls \in UNION {[1..n -> RunCases] : n \in 1..MaxCases} : IsMapping(ls)}

\* a table in which one case has factor 0
load_case_factors_zero == [load_case_factors_default EXCEPT !["Crane Operation"] = Zero]

NoCall == [fn |-> "none", args |-> <<>>, ret |-> [exc |-> "None"]]

-----------------------------------------------------------------------------
(* The script *)
loopVars == <<case, M, V, S, sigma_max, sigma_min, e, tipping_status, alpha>>
listVars == <<settlement_values, eccentricity_values, rotation_values, results>>
config == <<E, load_case_factors, loads>>

Init ==
    /\ E = E_default
    /\ load_case_factors = load_case_factors_default
    /\ loads \in LoadsInputs
    /\ number_inputs = number_inputs_default
    /\ L = number_inputs_default.L
    /\ B = number_inputs_default.B
    /\ H = number_inputs_default.H
    /\ case = UnboundStr /\ M = Unbound /\ V = Unbound
    /\ S = Unbound /\ sigma_max = Unbound /\ sigma_min = Unbound /\ e = Unbound
    /\ tipping_status = UnboundStr /\ alpha = Unbound
    /\ settlement_values = <<>> /\ eccentricity_values = <<>>
    /\ rotation_values = <<>> /\ results = <<>>
    /\ it = 1
    /\ pc = "idle"
    /\ exc = "None"
    /\ call = NoCall

\* Lines 1-91 of a script run: every name is bound afresh, the geometry is
\* read from the widgets.
ScriptTop(w) ==
    /\ L' = w.L /\ B' = w.B /\ H' = w.H
    /\ case' = UnboundStr /\ M' = Unbound /\ V' = Unbound
    /\ S' = Unbound /\ sigma_max' = Unbound /\ sigma_min' = Unbound /\ e' = Unbound
    /\ tipping_status' = UnboundStr /\ alpha' = Unbound
    /\ settlement_values' = <<>> /\ eccentricity_values' = <<>>
    /\ rotation_values' = <<>> /\ results' = <<>>
    /\ it' = 1
    /\ exc' = "None"
    /\ UNCHANGED <<config, call>>

\* The user enters x in one of the number inputs, lines 23-25.  A committed
\* change reruns the script with the button not pressed.
EnterNumber(field, x) ==
    /\ pc # "loop"
    /\ LET w == [number_inputs EXCEPT ![field] = number_input(min_value[field], @, x)]
       IN  IF w = number_inputs
           THEN UNCHANGED vars
           ELSE /\ number_inputs' = w
                /\ ScriptTop(w)
                /\ pc' = "idle"

\* The user presses "Run Calculations": the script reruns and enters the
\* block of line 92, lines 93-96.
ClickRun ==
    /\ pc # "loop"
    /\ ScriptTop(number_inputs)
    /\ UNCHANGED number_inputs
    /\ pc' = "loop"

\* One iteration of the loop, lines 98-106
ProcessCase ==
    /\ pc = "loop"
    /\ it <= Len(loads)
    /\ LET c == loads[it].case
           values == loads[it].values
           r == calculate_settlement(values[1], values[2], values[3], B, c)
           a == calculate_rotation_angle(values[1], B, c)
       IN  /\ case' = c
           /\ M' = values[1] /\ H' = values[2] /\ V' = values[3]      \* line 99
           /\ IF Raised(r)
              THEN /\ pc' = "raised" /\ exc' = r.exc
                   /\ UNCHANGED <<S, sigma_max, sigma_min, e, tipping_status, alpha,
                                  listVars, it>>
              ELSE /\ S' = r.S /\ sigma_max' = r.sigma_max
                   /\ sigma_min' = r.sigma_min /\ e' = r.e            \* line 100
                   /\ tipping_status' = check_tipping(r.e, B)         \* line 101
                   /\ IF Raised(a)                                    \* line 102
                      THEN /\ pc' = "raised" /\ exc' = a.exc
                           /\ UNCHANGED <<alpha, listVars, it>>
                      ELSE /\ alpha' = a.alpha
                           /\ results' = Append(results,
                                  result_line(c, r.S, r.sigma_max,
                                              check_tipping(r.e, B), a.alpha))
                           /\ settlement_values' = Append(settlement_values, r.S)
                           /\ eccentricity_values' = Append(eccentricity_values, r.e)
                           /\ rotation_values' = Append(rotation_values, a.alpha)
                           /\ it' = it + 1
                           /\ UNCHANGED <<pc, exc>>
    /\ UNCHANGED <<L, B, config, number_inputs, call>>

\* After the loop, lines 108-109
Finish ==
    /\ pc = "loop"
    /\ it > Len(loads)
    /\ LET p == plot_footing(settlement_values, eccentricity_values, rotation_values)
       IN  IF Raised(p)
           THEN pc' = "raised" /\ exc' = p.exc
           ELSE pc' = "done" /\ UNCHANGED exc
    /\ UNCHANGED <<L, B, H, config, number_inputs, loopVars, listVars, it, call>>

Next ==
    \/ \E field \in Fields : \E x \in Entries(field) : EnterNumber(field, x)
    \/ ClickRun
    \/ ProcessCase
    \/ Finish

Spec == Init /\ [][Next]_vars

-----------------------------------------------------------------------------
(* Direct calls of the three functions *)
CallM == {R(m) : m \in -MaxM..MaxM}
CallV == {R(v) : v \in -MaxV..MaxV}
CallB == {R(b) : b \in 1..MaxGeom}
CallE == {Norm(m, v) : m \in -MaxM..MaxM, v \in 1..MaxV}

InitFn ==
    /\ E \in {Zero, E_default}
    /\ load_case_factors \in {load_case_factors_default, load_case_factors_zero}
    /\ L \in CallB
    /\ loads = <<>>
    /\ number_inputs = number_inputs_default
    /\ B = number_inputs_default.B
    /\ H = number_inputs_default.H
    /\ case = UnboundStr /\ M = Unbound /\ V = Unbound
    /\ S = Unbound /\ sigma_max = Unbound /\ sigma_min = Unbound /\ e = Unbound
    /\ tipping_status = UnboundStr /\ alpha = Unbound
    /\ settlement_values = <<>> /\ eccentricity_values = <<>>
    /\ rotation_values = <<>> /\ results = <<>>
    /\ it = 1
    /\ pc = "idle"
    /\ exc = "None"
    /\ call = NoCall

scriptVars == <<L, B, H, E, load_case_factors, loads, number_inputs, case, M, V,
                S, sigma_max, sigma_min, e, tipping_status, alpha,
                settlement_values, eccentricity_values, rotation_values, results,
                it, pc, exc>>

CallSettlement(m, h, v, b, c) ==
    /\ call = NoCall
    /\ call' = [fn |-> "calculate_settlement", args |-> <<m, h, v, b, c>>,
                ret |-> calculate_settlement(m, h, v, b, c)]
    /\ UNCHANGED scriptVars

CallTipping(e_, b) ==
    /\ call = NoCall
    /\ call' = [fn |-> "check_tipping", args |-> <<e_, b>>,
                ret |-> [exc |-> "None", verdict |-> check_tipping(e_, b)]]
    /\ UNCHANGED scriptVars

CallRotation(m, b, c) ==
    /\ call = NoCall
    /\ call' = [fn |-> "calculate_rotation_angle", args |-> <<m, b, c>>,
                ret |-> calculate_rotation_angle(m, b, c)]
    /\ UNCHANGED scriptVars

\* The caller has taken the returned value (or the exception)
Return ==
    /\ call # NoCall
    /\ call' = NoCall
    /\ UNCHANGED scriptVars

NextFn ==
    \/ \E m \in CallM, h \in HorizontalForces, v \in CallV, b \in CallB, c \in AllCaseNames :
          CallSettlement(m, h, v, b, c)
    \/ \E e_ \in CallE, b \in CallB : CallTipping(e_, b)
    \/ \E m \in CallM, b \in CallB, c \in AllCaseNames : CallRotation(m, b, c)
    \/ Return

SpecFn == InitFn /\ [][NextFn]_vars

-----------------------------------------------------------------------------
(* Properties of the function calls, checked under SpecFn *)
IsCall(fn) == call.fn = fn
Returned == ~Raised(call.ret)
Factor(c) == IF c \in DOMAIN load_case_factors THEN load_case_factors[c] ELSE <<1, 1>>
Positive(a) == a[1] > 0

C2_PressureBranches ==
    (IsCall("calculate_settlement") /\ Returned) =>
        LET m == call.args[1]
            v == call.args[3]
            b == call.args[4]
            r == call.ret
            six_e == RMul(R(6), r.e)
            area_b == RMul(RMul(b, L), b)
        IN  /\ RMul(r.e, v) = m
            /\ RLe(six_e, b) =>
                  /\ RMul(r.sigma_max, area_b) = RMul(v, RAdd(b, six_e))
                  /\ RMul(r.sigma_min, area_b) = RMul(v, RSub(b, six_e))
            /\ RLt(b, six_e) =>
                  /\ RMul(r.sigma_max, RMul(b, L)) = RMul(R(2), v)
                  /\ r.sigma_min = Zero
            /\ RMul(r.S, E) = RMul(RMul(r.sigma_max, b), Factor(call.args[5]))

\* a call on the boundary e = B/6 with a non-zero moment, and one strictly
\* inside the linear range, are both made; the witness is the boundary call
C2_Witness ==
    /\ IsCall("calculate_settlement") /\ Returned
    /\ call.args[1] # Zero
    /\ RMul(R(6), call.ret.e) = call.args[4]

\* C3: for B > 0, check_tipping(e, B) is RISK exactly when e > B/3, strictly
\* (3e > B); e = B/3 is NO_RISK.
C3_TippingThreshold ==
    IsCall("check_tipping") =>
        LET e_ == call.args[1]
            b == call.args[2]
        IN  /\ call.ret.verdict \in {"Tipping Risk: YES", "Tipping Risk: NO"}
            /\ (call.ret.verdict = "Tipping Risk: YES") <=> (3 * e_[1] * b[2] > b[1] * e_[2])

\* a call exactly on the threshold e = B/3, answered NO
C3_Witness ==
    /\ IsCall("check_tipping")
    /\ RMul(R(3), call.args[1]) = call.args[2]
    /\ call.ret.verdict = "Tipping Risk: NO"

\* C6: when E * factor = 0, calculate_rotation_angle raises the division
\* error and returns no angle.
C6_RotationDivisionError ==
    (IsCall("calculate_rotation_angle") /\ IsZero(RMul(E, Factor(call.args[3])))) =>
        /\ call.ret.exc = ZeroDivisionError
        /\ "alpha" \notin DOMAIN call.ret

\* a call with a zero factor, a non-zero E and a non-zero moment, which raised
C6_Witness ==
    /\ IsCall("calculate_rotation_angle")
    /\ Factor(call.args[3]) = Zero /\ E # Zero /\ call.args[1] # Zero
    /\ Raised(call.ret)

\* the settlement of the same call made for another case name
SettlementFor(c2) ==
    calculate_settlement(call.args[1], call.args[2], call.args[3], call.args[4], c2).S

\* C9 as stated: for V # 0, B, L, E > 0 and factors f1 < f2, S(f1) < S(f2).
C9_MonotoneForAllInputs ==
    (IsCall("calculate_settlement") /\ Returned) =>
        \A c2 \in AllCaseNames :
            RLt(Factor(call.args[5]), Factor(c2)) => RLt(call.ret.S, SettlementFor(c2))

\* C9 amended: when moreover the returned sigma_max is positive, factors
\* f1 < f2 give S(f1) < S(f2).
C9_MonotoneForPositivePressure ==
    (IsCall("calculate_settlement") /\ Returned /\ Positive(call.ret.sigma_max)) =>
        \A c2 \in AllCaseNames :
            RLt(Factor(call.args[5]), Factor(c2)) => RLt(call.ret.S, SettlementFor(c2))

\* a call with positive sigma_max for a case whose factor is not the largest
C9_Witness ==
    /\ IsCall("calculate_settlement") /\ Returned /\ Positive(call.ret.sigma_max)
    /\ \E c2 \in AllCaseNames : RLt(Factor(call.args[5]), Factor(c2))

-----------------------------------------------------------------------------
(* Properties of the script, checked under Spec *)
ListsEmpty ==
    /\ settlement_values = <<>> /\ eccentricity_values = <<>>
    /\ rotation_values = <<>> /\ results = <<>>
HasZeroV == \E i \in 1..Len(loads) : IsZero(loads[i].values[3])
\* the loop variables hold the values of the last iteration, which completed
Completed == it > 1 /\ ~(pc = "raised" /\ exc = ZeroDivisionError)

\* C4: with a load case of V = 0 the run fails with the division error,
\* and when it fails nothing has been computed or accumulated.
C4_ZeroVFailsBeforeAnyCase ==
    HasZeroV =>
        /\ pc # "done"
        /\ pc = "raised" => (exc = ZeroDivisionError /\ ListsEmpty /\ S = Unbound)

C7_IterationFrame ==
    [][ProcessCase =>
         /\ UNCHANGED <<L, B, H, E, load_case_factors>>
         /\ it' = it + 1 =>
              LET m == loads[it].values[1]
                  v == loads[it].values[3]
                  r == calculate_settlement(m, Zero, v, B, loads[it].case)
              IN  /\ S' = r.S /\ sigma_max' = r.sigma_max /\ sigma_min' = r.sigma_min
                  /\ e' = r.e
                  /\ settlement_values' = Append(settlement_values, r.S)]_vars

\* C8: the factor of a case is its table entry, or 1 when it has none, and
\* settlement and rotation angle of the case use that same factor:
\* S*E = sigma_max*B*f and tan(alpha)*(B*E*f) = M.
C8_FactorLookup ==
    Completed =>
        LET f == IF case \in CaseNames THEN load_case_factors_default[case] ELSE R(1)
        IN  /\ RMul(S, E) = RMul(RMul(sigma_max, B), f)
            /\ alpha[1] = "degrees(arctan)"
            /\ RMul(alpha[2], RMul(RMul(B, E), f)) = M

\* a case without a table entry was processed, with non-zero pressure and moment
C8_Witness ==
    /\ Completed /\ case = "Unlisted"
    /\ sigma_max # Zero /\ M # Zero

\* C10: a case reported as tipping risk took the triangular branch:
\* sigma_min = 0 and sigma_max = 2V/(B*L).
C10_RiskImpliesTriangular ==
    (Completed /\ tipping_status = "Tipping Risk: YES") =>
        /\ sigma_min = Zero
        /\ RMul(sigma_max, RMul(B, L)) = RMul(R(2), V)

C10_Witness == Completed /\ tipping_status = "Tipping Risk: YES"

\* the converse fails: a case strictly beyond B/6 that is reported as no risk
C10_TriangularWithoutRisk ==
    /\ Completed /\ tipping_status = "Tipping Risk: NO"
    /\ RLt(B, RMul(R(6), e)) /\ sigma_min = Zero

====
